---- MODULE Spec2Model ----
\* A model of buff_watcher (src/main.py): the listing parser, the alarm
\* decision and the polling loop of main(), with its start-up and its exits.
EXTENDS Integers, Sequences, FiniteSets, TLC

VARIABLES
    config,         \* what load_config finds on disk (fixed at start)
    pc,             \* position of the process in main()
    items_data,     \* list of item dicts built from the configuration
    active_alarms,  \* set of display names whose alarm is on
    idx,            \* position of the for loop in items_data
    driver,         \* the selenium driver: "none", "open" or "quit"
    exc,            \* the exception that is propagating, or "none"
    exit_status,    \* exit status of the process (-1 while it runs)
    now,            \* datetime.now(), a logical clock that ticks with every fetch
    html,           \* what the last fetch_html returned
    prices,         \* what the last parse_listings returned
    is_in_alarm,    \* the local of that name: membership found at the last non-empty sample
    fetches,        \* number of calls of fetch_html so far
    notify_count,   \* number of calls of play_alarm_sound so far
    published,      \* number of layouts handed to the Live display so far
    failed_sounds   \* names of the active alarms whose playsound call raised

vars == <<config, pc, items_data, active_alarms, idx, driver, exc, exit_status,
          now, html, prices, is_in_alarm, fetches, notify_count, published,
          failed_sounds>>

-----------------------------------------------------------------------------
\* Bounds of the model.

\* Longest configuration list.
MaxItems == 2
\* Most rows of a page in the exhaustive check of parse_listings.
MaxRows == 3
\* Number of fetches after which the model stops the clock.
MaxClock == 4

-----------------------------------------------------------------------------
\* Python values.

\* A float (or an int that converts to one exactly).
Fin(n) == [k |-> "fin", v |-> n]
NaN == [k |-> "nan", v |-> 0]
PosInf == [k |-> "inf", v |-> 1]
NegInf == [k |-> "inf", v |-> -1]
\* A JSON integer literal too large for a float (for instance 1 followed by 400 zeros).
BigInt == [k |-> "bigint", v |-> 0]
\* A TOML string where a number is expected.
TomlStr == [k |-> "str", v |-> 0]
\* Python's None in a price or time field.
None == [k |-> "none", v |-> 0]

\* a < b on floats: false whenever a NaN is involved.
PyLt(a, b) ==
    IF a.k = "nan" \/ b.k = "nan" THEN FALSE
    ELSE IF a.k = "inf" THEN a.v < 0 /\ ~(b.k = "inf" /\ b.v < 0)
    ELSE IF b.k = "inf" THEN b.v > 0
    ELSE a.v < b.v

\* a float <= a configured alarm_price: "True", "False", or "TypeError" when
\* the alarm_price is not a number.
PyLe(a, b) ==
    IF b.k = "str" THEN "TypeError"
    ELSE IF a.k = "nan" \/ b.k = "nan" THEN "False"
    ELSE IF a = b \/ PyLt(a, b) THEN "True" ELSE "False"

\* min(prices) as Python computes it: the first element, replaced by each later
\* element that compares smaller.
RECURSIVE PyMinFrom(_, _, _)
PyMinFrom(m, s, i) ==
    IF i > Len(s) THEN m
    ELSE PyMinFrom(IF PyLt(s[i], m) THEN s[i] ELSE m, s, i + 1)

PyMin(s) == PyMinFrom(s[1], s, 2)

-----------------------------------------------------------------------------
\* Decoded JSON values. A string is a sequence of tokens; the token " " is
\* white space.

JStr(s) == [tag |-> "str", s |-> s]
JNum(f) == [tag |-> "num", n |-> f]
JBool(b) == [tag |-> "bool", b |-> b]
JNull == [tag |-> "null"]
JArr(items) == [tag |-> "arr", items |-> items]
\* fields: a sequence of <<key, value>> pairs with distinct keys, in insertion order.
JObj(fields) == [tag |-> "obj", fields |-> fields]

SP == " "
KEY == <<"sell_min_price">>

\* str.strip(): drops the leading and the trailing white space.
RECURSIVE LStrip(_)
LStrip(s) == IF s # <<>> /\ Head(s) = SP THEN LStrip(Tail(s)) ELSE s

RECURSIVE RStrip(_)
RStrip(s) ==
    IF s # <<>> /\ s[Len(s)] = SP THEN RStrip(SubSeq(s, 1, Len(s) - 1)) ELSE s

Strip(s) == RStrip(LStrip(s))

\* d[k] = v on a dict kept as a sequence of pairs: replaces the value of an
\* existing key in place, appends a new key.
DictSet(d, k, v) ==
    IF \E i \in 1..Len(d) : d[i][1] = k
    THEN [i \in 1..Len(d) |-> IF d[i][1] = k THEN <<k, v>> ELSE d[i]]
    ELSE Append(d, <<k, v>>)

\* _strip_recursive: a dict gets its keys stripped and its string values
\* stripped, and recurses into its values; a list recurses into its elements;
\* anything else, a string included, is returned as it is.
RECURSIVE StripRecursive(_)
RECURSIVE StripFields(_, _, _)
StripFields(fields, i, acc) ==
    IF i > Len(fields) THEN acc
    ELSE LET k == fields[i][1]
             v == fields[i][2]
             sv == IF v.tag = "str" THEN JStr(Strip(v.s)) ELSE v
         IN  StripFields(fields, i + 1, DictSet(acc, Strip(k), StripRecursive(sv)))

StripRecursive(obj) ==
    IF obj.tag = "obj" THEN JObj(StripFields(obj.fields, 1, <<>>))
    ELSE IF obj.tag = "arr"
    THEN JArr([i \in 1..Len(obj.items) |-> StripRecursive(obj.items[i])])
    ELSE obj

-----------------------------------------------------------------------------
\* The listing parser.

\* float(str): Python strips the text itself; a decimal numeral gives its
\* value, "nan" and "inf" give the special floats, anything else is a ValueError.
FloatOfStr(s) ==
    LET t == Strip(s) IN
    IF Len(t) # 1 THEN [st |-> "raise", err |-> "ValueError", p |-> None]
    ELSE IF t[1] = "0.00" THEN [st |-> "offer", err |-> "none", p |-> Fin(0)]
    ELSE IF t[1] = "1.00" THEN [st |-> "offer", err |-> "none", p |-> Fin(1)]
    ELSE IF t[1] = "2.00" THEN [st |-> "offer", err |-> "none", p |-> Fin(2)]
    ELSE IF t[1] = "3.00" THEN [st |-> "offer", err |-> "none", p |-> Fin(3)]
    ELSE IF t[1] = "-1.00" THEN [st |-> "offer", err |-> "none", p |-> Fin(-1)]
    ELSE IF t[1] = "nan" THEN [st |-> "offer", err |-> "none", p |-> NaN]
    ELSE IF t[1] = "inf" THEN [st |-> "offer", err |-> "none", p |-> PosInf]
    ELSE [st |-> "raise", err |-> "ValueError", p |-> None]

\* float(x) of a decoded JSON value.
PyFloat(x) ==
    IF x.tag = "num"
    THEN IF x.n.k = "bigint"
         THEN [st |-> "raise", err |-> "OverflowError", p |-> None]
         ELSE [st |-> "offer", err |-> "none", p |-> x.n]
    ELSE IF x.tag = "bool"
    THEN [st |-> "offer", err |-> "none", p |-> IF x.b THEN Fin(1) ELSE Fin(0)]
    ELSE IF x.tag = "str" THEN FloatOfStr(x.s)
    ELSE [st |-> "raise", err |-> "TypeError", p |-> None]

\* 'sell_min_price' in data: a key of a dict, an element of a list, a
\* substring of a string; a TypeError on a number, a boolean or null.
PyContains(data) ==
    IF data.tag = "obj"
    THEN IF \E i \in 1..Len(data.fields) : data.fields[i][1] = KEY
         THEN "True" ELSE "False"
    ELSE IF data.tag = "arr"
    THEN IF \E i \in 1..Len(data.items) : data.items[i] = JStr(KEY)
         THEN "True" ELSE "False"
    ELSE IF data.tag = "str"
    THEN IF \E i \in 1..Len(data.s) : data.s[i] = KEY[1] THEN "True" ELSE "False"
    ELSE "TypeError"

\* data['sell_min_price'] followed by float(): only a dict can be indexed by a string.
PriceOf(data) ==
    IF data.tag = "obj"
    THEN LET i == CHOOSE j \in 1..Len(data.fields) : data.fields[j][1] = KEY
         IN  PyFloat(data.fields[i][2])
    ELSE [st |-> "raise", err |-> "TypeError", p |-> None]

\* The exceptions the loop body of parse_listings catches.
Caught(err) == err \in {"JSONDecodeError", "ValueError", "TypeError"}

\* One row of the loop of parse_listings. A row is
\* [attr, decodes, data]: whether it has a non-empty data-goods-info attribute,
\* whether json.loads accepts the cleaned text, and the decoded value.
\* The result: an offer, a skipped row, or an exception that leaves the function.
ParseRow(row) ==
    IF ~row.attr THEN [st |-> "skip", err |-> "none", p |-> None]
    ELSE LET r == IF ~row.decodes
                  THEN [st |-> "raise", err |-> "JSONDecodeError", p |-> None]
                  ELSE LET stripped_data == StripRecursive(row.data)
                           has == PyContains(stripped_data)
                       IN  IF has = "TypeError"
                           THEN [st |-> "raise", err |-> "TypeError", p |-> None]
                           ELSE IF has = "False"
                           THEN [st |-> "skip", err |-> "none", p |-> None]
                           ELSE PriceOf(stripped_data)
         IN  IF r.st = "raise" /\ Caught(r.err)
             THEN [st |-> "skip", err |-> "none", p |-> None]
             ELSE r

\* The for loop over the selling rows: the prices so far, or the exception
\* that left the loop.
RECURSIVE ParseRows(_, _, _)
ParseRows(rows, i, acc) ==
    IF i > Len(rows) THEN [err |-> "none", prices |-> acc]
    ELSE LET r == ParseRow(rows[i]) IN
         IF r.st = "raise" THEN [err |-> r.err, prices |-> <<>>]
         ELSE ParseRows(rows, i + 1, IF r.st = "offer" THEN Append(acc, r.p) ELSE acc)

\* A page is [kind, container, rows]: kind "none" is a failed fetch (None),
\* "empty" the empty string, "page" a document; container says whether the
\* document has a table of class list_tb, rows are the selling rows of the document.
NoHtml == [kind |-> "none", container |-> FALSE, rows |-> <<>>]
EmptyHtml == [kind |-> "empty", container |-> FALSE, rows |-> <<>>]
Page(container, rows) == [kind |-> "page", container |-> container, rows |-> rows]

\* `not html`
HtmlFalsy(h) == h.kind \in {"none", "empty"}

\* Mutant of NoListingsTable: the rows are looked up in the whole document.
NoListingsTableSkipped(h) == FALSE

\* `not listings_table`
NoListingsTable(h) == ~h.container

\* parse_listings(html): [err, prices].
parse_listings(h) ==
    IF HtmlFalsy(h) THEN [err |-> "none", prices |-> <<>>]
    ELSE IF NoListingsTable(h) THEN [err |-> "none", prices |-> <<>>]
    ELSE ParseRows(h.rows, 1, <<>>)

\* Rows of the kinds the parser distinguishes.
RowOf(data) == [attr |-> TRUE, decodes |-> TRUE, data |-> data]
RowNoAttr == [attr |-> FALSE, decodes |-> FALSE, data |-> JNull]
RowCorrupt == [attr |-> TRUE, decodes |-> FALSE, data |-> JNull]
RowPrice(tok) == RowOf(JObj(<<<<<<"id">>, JNum(Fin(7))>>, <<KEY, JStr(<<tok>>)>>>>))
RowPadded == RowOf(JObj(<<<<<<SP, "sell_min_price", SP>>, JStr(<<SP, "1.00", SP>>)>>>>))
RowNumber == RowOf(JObj(<<<<KEY, JNum(Fin(3))>>>>))
RowNoPrice == RowOf(JObj(<<<<<<"id">>, JNum(Fin(7))>>>>))
RowWord == RowOf(JObj(<<<<KEY, JStr(<<"abc">>)>>>>))
RowNull == RowOf(JObj(<<<<KEY, JNull>>>>))
RowList == RowOf(JArr(<<JStr(KEY)>>))
RowString == RowOf(JStr(KEY))
RowScalar == RowOf(JNum(Fin(5)))
RowHuge == RowOf(JObj(<<<<KEY, JNum(BigInt)>>>>))
RowNaN == RowOf(JObj(<<<<KEY, JNum(NaN)>>>>))
RowNested ==
    RowOf(JObj(<<<<<<SP, "tag">>, JObj(<<<<<<"name", SP>>, JStr(<<SP, "abc">>)>>>>)>>,
                 <<KEY, JStr(<<"2.00">>)>>>>))
RowArray ==
    RowOf(JObj(<<<<<<"tags">>, JArr(<<JStr(<<SP, "abc", SP>>), JNum(Fin(7))>>)>>,
                 <<KEY, JStr(<<"2.00">>)>>>>))

Rows == {RowNoAttr, RowCorrupt, RowPrice("1.00"), RowPrice("2.00"), RowPadded,
         RowNumber, RowNoPrice, RowWord, RowNull, RowList, RowString, RowScalar,
         RowHuge, RowNaN, RowPrice("-1.00"), RowNested, RowArray}

RECURSIVE SeqsUpTo(_, _)
SeqsUpTo(S, n) ==
    IF n = 0 THEN {<<>>}
    ELSE LET shorter == SeqsUpTo(S, n - 1)
         IN  shorter \cup {Append(s, x) : s \in {t \in shorter : Len(t) = n - 1}, x \in S}

\* Every input of parse_listings within the bounds.
AllPages ==
    {NoHtml, EmptyHtml} \cup
    {Page(c, rows) : c \in BOOLEAN, rows \in SeqsUpTo(Rows, MaxRows)}

-----------------------------------------------------------------------------
\* Start-up: the configuration and the item list.

\* A record of the [[items]] list of config.toml. missing names the key the
\* record lacks ("none" when it has all three).
ConfigItem(name, price) ==
    [missing |-> "none", display_name |-> name, url |-> name, alarm_price |-> price]
ConfigItemWithout(key) ==
    [missing |-> key, display_name |-> "A", url |-> "A", alarm_price |-> Fin(2)]

ConfigItems ==
    {ConfigItem("A", Fin(2)), ConfigItem("B", Fin(2)), ConfigItem("A", TomlStr),
     ConfigItemWithout("alarm_price")}

\* What load_config can find: no file, a file that cannot be read or decoded,
\* or a decoded file with its list of items.
Configs ==
    {[file |-> f, items |-> <<>>] : f \in {"absent", "undecodable"}} \cup
    {[file |-> "ok", items |-> its] : its \in SeqsUpTo(ConfigItems, MaxItems)}

\* load_config: "SystemExit" (exit(1) after the message), the exception that
\* open or toml.load raises, or "none" when the file loads.
load_config(c) ==
    IF c.file = "absent" THEN "SystemExit"
    ELSE IF c.file = "undecodable" THEN "TomlDecodeError"
    ELSE "none"

\* The list comprehension of main(): item["display_name"], item["url"] and
\* item["alarm_price"] raise KeyError on a record without the key.
BuildRaises(c) == \E i \in 1..Len(c.items) : c.items[i].missing # "none"

BuildItems(c) ==
    [i \in 1..Len(c.items) |->
        [display_name |-> c.items[i].display_name,
         url |-> c.items[i].url,
         alarm_price |-> c.items[i].alarm_price,
         lowest_price |-> None,
         last_updated |-> None]]

\* Mutant of OnRaise: no finally clause, the exception ends the process at once.
OnRaiseNoFinally == "exited"

\* Where an exception raised inside the try block of main() goes: the finally clause.
OnRaise == "finally"

Init ==
    /\ config \in Configs
    /\ pc = "load_config"
    /\ items_data = <<>>
    /\ active_alarms = {}
    /\ idx = 0
    /\ driver = "none"
    /\ exc = "none"
    /\ exit_status = -1
    /\ now = 0
    /\ html = NoHtml
    /\ prices = <<>>
    /\ is_in_alarm = FALSE
    /\ fetches = 0
    /\ notify_count = 0
    /\ published = 0
    /\ failed_sounds = {}

\* config = load_config()
LoadConfig ==
    /\ pc = "load_config"
    /\ LET e == load_config(config) IN
       IF e = "none"
       THEN /\ pc' = "build_items"
            /\ UNCHANGED <<exc, exit_status>>
       ELSE /\ pc' = "exited"
            /\ exc' = e
            /\ exit_status' = 1
    /\ UNCHANGED <<config, items_data, active_alarms, idx, driver, now, html,
                   prices, is_in_alarm, fetches, notify_count, published, failed_sounds>>

\* items_data = [...]; active_alarms = set()
MakeItems ==
    /\ pc = "build_items"
    /\ IF BuildRaises(config)
       THEN /\ pc' = "exited"
            /\ exc' = "KeyError"
            /\ exit_status' = 1
            /\ UNCHANGED <<items_data, active_alarms>>
       ELSE /\ pc' = "setup_driver"
            /\ items_data' = BuildItems(config)
            /\ active_alarms' = {}
            /\ UNCHANGED <<exc, exit_status>>
    /\ UNCHANGED <<config, idx, driver, now, html, prices, is_in_alarm, fetches,
                   notify_count, published, failed_sounds>>

\* driver = setup_driver(), outside the try block: a failure to start the
\* browser ends the process with no driver.
SetupDriver ==
    /\ pc = "setup_driver"
    /\ \E ok \in BOOLEAN :
        IF ok
        THEN /\ driver' = "open"
             /\ pc' = "live_init"
             /\ UNCHANGED <<exc, exit_status>>
        ELSE /\ pc' = "exited"
             /\ exc' = "WebDriverException"
             /\ exit_status' = 1
             /\ UNCHANGED driver
    /\ UNCHANGED <<config, items_data, active_alarms, idx, now, html, prices, is_in_alarm,
                   fetches, notify_count, published, failed_sounds>>

\* Mutant of AfterItem: the pause comes after every item.
AfterItemAlwaysSleeps(i, n) == "sleep"

\* The position after a layout has been shown for item i of n: the next item
\* of the for loop, or time.sleep when the sweep is over.
AfterItem(i, n) == IF i < n THEN "fetch" ELSE "sleep"

\* with Live(generate_layout(items_data, active_alarms), ...): the first
\* layout, inside the try block. rendered is false when rendering raises.
LiveInit ==
    /\ pc = "live_init"
    /\ \E rendered \in BOOLEAN :
        IF rendered
        THEN /\ published' = published + 1
             /\ pc' = AfterItem(0, Len(items_data))
             /\ idx' = IF Len(items_data) > 0 THEN 1 ELSE 0
             /\ UNCHANGED exc
        ELSE /\ exc' = "RenderError"
             /\ pc' = OnRaise
             /\ UNCHANGED <<published, idx>>
    /\ UNCHANGED <<config, items_data, active_alarms, driver, exit_status, now,
                   html, prices, is_in_alarm, fetches, notify_count, failed_sounds>>

-----------------------------------------------------------------------------
\* The console display.

\* The text "N/A", and a price or a time formatted for the display.
NA == [na |-> TRUE, p |-> None]
Shown(x) == [na |-> FALSE, p |-> x]

\* Truth value of a float or None in an `if`: None and 0.0 are false, every
\* other float (NaN included) is true.
Truthy(x) == x # None /\ x # Fin(0)

\* next((item for item in items_data if item["display_name"] == name), None):
\* the index of the first item of that name, 0 for None.
FirstNamed(items, name) ==
    IF \E i \in 1..Len(items) : items[i].display_name = name
    THEN CHOOSE i \in 1..Len(items) :
            /\ items[i].display_name = name
            /\ \A j \in 1..(i - 1) : items[j].display_name # name
    ELSE 0

\* generate_layout: the rows of the main table, in the order of items_data,
\* and the lines of the active-alarms panel (one per name, so kept as a set).
generate_layout(items, alarms) ==
    [rows |-> [i \in 1..Len(items) |->
                  [display_name |-> items[i].display_name,
                   price_str |-> IF items[i].lowest_price # None
                                 THEN Shown(items[i].lowest_price) ELSE NA,
                   time_str |-> IF items[i].last_updated # None
                                THEN Shown(items[i].last_updated) ELSE NA]],
     alarm_lines |->
        {[display_name |-> name,
          price |-> items[FirstNamed(items, name)].lowest_price] :
            name \in {n \in alarms :
                        /\ FirstNamed(items, n) # 0
                        /\ Truthy(items[FirstNamed(items, n)].lowest_price)}}]

-----------------------------------------------------------------------------
\* The polling loop.

\* What the marketplace can answer in the model: pages whose parse is empty,
\* at, below and above the alarm price, not a number, zero, and one with a
\* price too large for a float.
SitePages ==
    {Page(FALSE, <<RowPrice("1.00")>>),
     Page(TRUE, <<RowCorrupt, RowNoPrice>>),
     Page(TRUE, <<RowCorrupt, RowNumber, RowPrice("2.00")>>),
     Page(TRUE, <<RowPadded>>),
     Page(TRUE, <<RowNumber>>),
     Page(TRUE, <<RowNaN>>),
     Page(TRUE, <<RowPrice("0.00")>>),
     Page(TRUE, <<RowPrice("1.00"), RowHuge>>)}

\* How driver.get and the wait can end, short of an interrupt.
FetchOutcomes == {"ok", "TimeoutException", "Exception"}

\* fetch_html: the page source, or None after a timeout or any other Exception.
fetch_html(outcome, page) == IF outcome = "ok" THEN page ELSE NoHtml

\* Mutant of UpdateItem: an empty sample blanks the item.
UpdateItemBlanking(item, ps, t) ==
    IF ps # <<>>
    THEN [item EXCEPT !.lowest_price = PyMin(ps), !.last_updated = Fin(t)]
    ELSE [item EXCEPT !.lowest_price = None, !.last_updated = None]

\* Mutant of UpdateItem: the recorded price is a running minimum.
UpdateItemRunningMin(item, ps, t) ==
    IF ps # <<>>
    THEN [item EXCEPT !.lowest_price = IF item.lowest_price # None
                                          /\ PyLt(item.lowest_price, PyMin(ps))
                                       THEN item.lowest_price ELSE PyMin(ps),
                      !.last_updated = Fin(t)]
    ELSE item

\* Mutant of UpdateItem: the price is recorded without its time.
UpdateItemNoTime(item, ps, t) ==
    IF ps # <<>> THEN [item EXCEPT !.lowest_price = PyMin(ps)] ELSE item

\* Mutant of UpdateItem: the lowest price is written to the wrong key.
UpdateItemWrongKey(item, ps, t) ==
    IF ps # <<>>
    THEN [item EXCEPT !.alarm_price = PyMin(ps), !.last_updated = Fin(t)]
    ELSE item

\* `if prices:` and the two assignments under it: the item after the sample.
UpdateItem(item, ps, t) ==
    IF ps # <<>>
    THEN [item EXCEPT !.lowest_price = PyMin(ps), !.last_updated = Fin(t)]
    ELSE item

\* Mutant of Decide: level-triggered, the sound plays on every sample at or
\* below the alarm price.
DecideLevelTriggered(le, in_alarm) ==
    IF le = "True"
    THEN [notify |-> TRUE, alarm |-> "add"]
    ELSE IF in_alarm
         THEN [notify |-> FALSE, alarm |-> "remove"]
         ELSE [notify |-> FALSE, alarm |-> "keep"]

\* Mutant of Decide: an alarm, once on, is never removed.
DecideNeverClears(le, in_alarm) ==
    IF le = "True"
    THEN IF ~in_alarm
         THEN [notify |-> TRUE, alarm |-> "add"]
         ELSE [notify |-> FALSE, alarm |-> "keep"]
    ELSE [notify |-> FALSE, alarm |-> "keep"]

\* The alarm decision of main() for a non-empty sample: le is the outcome of
\* lowest_price <= alarm_price ("True" or "False"), in_alarm the value of the
\* local is_in_alarm. Gives whether play_alarm_sound is called and
\* what happens to the name in active_alarms.
Decide(le, in_alarm) ==
    IF le = "True"
    THEN IF ~in_alarm
         THEN [notify |-> TRUE, alarm |-> "add"]
         ELSE [notify |-> FALSE, alarm |-> "keep"]
    ELSE IF in_alarm
         THEN [notify |-> FALSE, alarm |-> "remove"]
         ELSE [notify |-> FALSE, alarm |-> "keep"]

\* One pass of the for loop body up to the call of play_alarm_sound or of
\* live.update: fetch_html, parse_listings, the update of the item and the
\* alarm decision.
FetchAndProcess ==
    /\ pc = "fetch"
    /\ now < MaxClock
    /\ \E outcome \in FetchOutcomes, page \in SitePages :
        LET h == fetch_html(outcome, page)
            r == parse_listings(h)
            item == items_data[idx]
            name == item.display_name
            was_in == name \in active_alarms
        IN
        /\ html' = h
        /\ fetches' = fetches + 1
        /\ now' = now + 1
        /\ IF r.err # "none"
           THEN /\ exc' = r.err
                /\ pc' = OnRaise
                /\ UNCHANGED <<prices, is_in_alarm, items_data, active_alarms,
                               notify_count, failed_sounds>>
           ELSE /\ prices' = r.prices
                /\ items_data' = [items_data EXCEPT ![idx] = UpdateItem(item, r.prices, now')]
                /\ IF r.prices = <<>>
                   THEN /\ pc' = "publish"
                        /\ UNCHANGED <<exc, is_in_alarm, active_alarms, notify_count,
                                       failed_sounds>>
                   ELSE LET le == PyLe(PyMin(r.prices), item.alarm_price) IN
                        /\ is_in_alarm' = was_in
                        /\ IF le = "TypeError"
                           THEN /\ exc' = "TypeError"
                                /\ pc' = OnRaise
                                /\ UNCHANGED <<active_alarms, notify_count, failed_sounds>>
                           ELSE LET d == Decide(le, was_in) IN
                                /\ notify_count' = IF d.notify THEN notify_count + 1
                                                   ELSE notify_count
                                /\ pc' = IF d.notify THEN "notify" ELSE "publish"
                                /\ active_alarms' = IF d.alarm = "remove"
                                                    THEN active_alarms \ {name}
                                                    ELSE active_alarms
                                /\ failed_sounds' = IF d.alarm = "remove"
                                                    THEN failed_sounds \ {name}
                                                    ELSE failed_sounds
                                /\ UNCHANGED exc
    /\ UNCHANGED <<config, idx, driver, exit_status, published>>

\* Mutant of PlaysoundRaised: no try/except around playsound.
PlaysoundRaisedPropagates == "raise"

\* play_alarm_sound: what becomes of an Exception raised by playsound.
\* "pass": it is swallowed and the function returns.
PlaysoundRaised == "pass"

\* play_alarm_sound() returns, then active_alarms.add(name). raised says
\* whether playsound raised an Exception.
Notify ==
    /\ pc = "notify"
    /\ \E raised \in BOOLEAN :
        LET name == items_data[idx].display_name IN
        IF raised /\ PlaysoundRaised # "pass"
        THEN /\ exc' = "PlaysoundException"
             /\ pc' = OnRaise
             /\ UNCHANGED <<active_alarms, failed_sounds>>
        ELSE /\ active_alarms' = active_alarms \cup {name}
             /\ failed_sounds' = IF raised THEN failed_sounds \cup {name}
                                 ELSE failed_sounds \ {name}
             /\ pc' = "publish"
             /\ UNCHANGED exc
    /\ UNCHANGED <<config, items_data, idx, driver, exit_status, now, html,
                   prices, is_in_alarm, fetches, notify_count, published>>

\* live.update(generate_layout(items_data, active_alarms), refresh=True), then
\* the next item or the end of the sweep. rendered is false when it raises.
Publish ==
    /\ pc = "publish"
    /\ \E rendered \in BOOLEAN :
        IF rendered
        THEN /\ published' = published + 1
             /\ pc' = AfterItem(idx, Len(items_data))
             /\ idx' = IF idx < Len(items_data) THEN idx + 1 ELSE idx
             /\ UNCHANGED exc
        ELSE /\ exc' = "RenderError"
             /\ pc' = OnRaise
             /\ UNCHANGED <<published, idx>>
    /\ UNCHANGED <<config, items_data, active_alarms, driver, exit_status, now,
                   html, prices, is_in_alarm, fetches, notify_count, failed_sounds>>

\* time.sleep(10) returns and the next sweep starts with the first item.
Sleep ==
    /\ pc = "sleep"
    /\ Len(items_data) > 0
    /\ pc' = "fetch"
    /\ idx' = 1
    /\ UNCHANGED <<config, items_data, active_alarms, driver, exc, exit_status,
                   now, html, prices, is_in_alarm, fetches, notify_count, published,
                   failed_sounds>>

\* The positions inside the try block, where a KeyboardInterrupt can arrive:
\* no handler of the program catches it (they catch Exception at most).
InTry == {"live_init", "fetch", "notify", "publish", "sleep"}

\* Ctrl-C, or a termination that raises in the main thread.
Cancel ==
    /\ pc \in InTry
    /\ exc' = "KeyboardInterrupt"
    /\ pc' = OnRaise
    /\ UNCHANGED <<config, items_data, active_alarms, idx, driver, exit_status,
                   now, html, prices, is_in_alarm, fetches, notify_count, published,
                   failed_sounds>>

\* finally: driver.quit(); the exception then ends the process.
Finally ==
    /\ pc = "finally"
    /\ driver' = "quit"
    /\ pc' = "exited"
    /\ exit_status' = 1
    /\ UNCHANGED <<config, items_data, active_alarms, idx, exc, now, html,
                   prices, is_in_alarm, fetches, notify_count, published, failed_sounds>>

Next ==
    \/ LoadConfig
    \/ MakeItems
    \/ SetupDriver
    \/ LiveInit
    \/ FetchAndProcess
    \/ Notify
    \/ Publish
    \/ Sleep
    \/ Cancel
    \/ Finally

Spec == Init /\ [][Next]_vars

-----------------------------------------------------------------------------
\* parse_listings on its own: every page within the bounds, parsed once.

ParseInit ==
    /\ html \in AllPages
    /\ pc = "parse_call"
    /\ config = [file |-> "ok", items |-> <<>>]
    /\ items_data = <<>>
    /\ active_alarms = {}
    /\ idx = 0
    /\ driver = "none"
    /\ exc = "none"
    /\ exit_status = -1
    /\ now = 0
    /\ prices = <<>>
    /\ is_in_alarm = FALSE
    /\ fetches = 0
    /\ notify_count = 0
    /\ published = 0
    /\ failed_sounds = {}

\* prices = parse_listings(html); an exception that leaves the function is
\* recorded in exc and prices is not assigned.
ParseCall ==
    /\ pc = "parse_call"
    /\ LET r == parse_listings(html) IN
       /\ exc' = r.err
       /\ prices' = IF r.err = "none" THEN r.prices ELSE prices
    /\ pc' = "parse_done"
    /\ UNCHANGED <<config, items_data, active_alarms, idx, driver, exit_status,
                   now, html, is_in_alarm, fetches, notify_count, published,
                   failed_sounds>>

ParseNext == ParseCall

ParseSpec == ParseInit /\ [][ParseNext]_vars

-----------------------------------------------------------------------------
\* Properties of the alarm decision and of the item step.

\* The item the for loop is at, and its name.
CurItem == items_data[idx]
CurName == items_data[idx].display_name

\* A step of the loop body that fetched and sampled (whatever the outcome).
SampleStep == pc = "fetch" /\ fetches' = fetches + 1

\* The sample just taken is non-empty and its minimum is at or below the
\* alarm price of the current item.
AtOrBelow(ps) == ps # <<>> /\ PyLe(PyMin(ps), CurItem.alarm_price) = "True"

\* The sample just taken is non-empty and its minimum is above the alarm price.
Above(ps) ==
    /\ ps # <<>>
    /\ CurItem.alarm_price.k # "str"
    /\ PyLt(CurItem.alarm_price, PyMin(ps))

\* A configuration the claims call well formed: the file loads, every record
\* has its three keys and a numeric alarm_price.
WellFormed(c) ==
    /\ c.file = "ok"
    /\ \A i \in 1..Len(c.items) :
        c.items[i].missing = "none" /\ c.items[i].alarm_price.k = "fin"

\* C1: play_alarm_sound is called exactly once by a step that samples the
\* current item with a non-empty sample whose minimum is at or below the
\* alarm price while the item's name is not in active_alarms, and by no other
\* step: not by a sample taken while the name is in active_alarms, not by an
\* empty or failed sample, not by any other step of the program.
C1_NotifyOncePerEdge ==
    [][ /\ (SampleStep /\ exc' = "none") =>
             notify_count' = IF AtOrBelow(prices') /\ CurName \notin active_alarms
                             THEN notify_count + 1 ELSE notify_count
        /\ ~(SampleStep /\ exc' = "none") => notify_count' = notify_count
      ]_vars

\* C1 witness: a sample at or below the alarm price has been processed while
\* the alarm was already on, and the sound has played once in all.
C1_Witness ==
    /\ pc = "publish"
    /\ AtOrBelow(prices)
    /\ is_in_alarm
    /\ items_data[idx].last_updated = Fin(now)
    /\ CurName \in active_alarms
    /\ notify_count = 1
    /\ now >= 3

\* C2: a step whose sample has no prices leaves every item's lowest_price and
\* last_updated, active_alarms and the number of sounds played as they were,
\* and so does the display refresh that ends the item step.
C2_EmptySampleChangesNothing ==
    [][ /\ (SampleStep /\ prices' = <<>>) =>
             /\ items_data' = items_data
             /\ active_alarms' = active_alarms
             /\ notify_count' = notify_count
        /\ pc = "publish" =>
             /\ items_data' = items_data
             /\ active_alarms' = active_alarms
             /\ notify_count' = notify_count
      ]_vars

\* C2 witness: after a failed fetch the alarm of a priced item is still on,
\* with the price and the time of an earlier sample.
C2_Witness ==
    /\ pc = "publish"
    /\ html = NoHtml
    /\ prices = <<>>
    /\ CurName \in active_alarms
    /\ CurItem.lowest_price = Fin(1)
    /\ CurItem.last_updated # None
    /\ CurItem.last_updated.v < now

\* C3 as stated: whenever a layout is about to be shown (under a well-formed
\* configuration), every item's name is in active_alarms exactly when its
\* lowest_price is set and at or below its alarm_price.
C3_AlarmIffAtOrBelow ==
    (WellFormed(config) /\ pc = "publish") =>
        \A i \in 1..Len(items_data) :
            (items_data[i].display_name \in active_alarms)
                <=> /\ items_data[i].lowest_price # None
                    /\ PyLe(items_data[i].lowest_price, items_data[i].alarm_price) = "True"

\* C4: a non-empty sample above the alarm price never plays the sound and
\* leaves the name out of active_alarms in the same step, going straight to the
\* display refresh; a sample at or below the alarm price taken while the name
\* is not in active_alarms (after a clear, for instance) plays the sound, and
\* the name is in active_alarms when play_alarm_sound has returned.
C4_ClearIsSilentAndRearms ==
    [][ /\ (SampleStep /\ exc' = "none" /\ Above(prices')) =>
             /\ CurName \notin active_alarms'
             /\ notify_count' = notify_count
             /\ pc' = "publish"
        /\ (SampleStep /\ exc' = "none" /\ AtOrBelow(prices')
                /\ CurName \notin active_alarms) =>
             /\ notify_count' = notify_count + 1
             /\ pc' = "notify"
        /\ (pc = "notify" /\ pc' = "publish") => CurName \in active_alarms'
      ]_vars

\* C4 witness: a sample above the alarm price has just cleared an alarm that
\* was on, after one sound.
C4_Witness ==
    /\ pc = "publish"
    /\ Above(prices)
    /\ is_in_alarm
    /\ items_data[idx].last_updated = Fin(now)
    /\ CurName \notin active_alarms
    /\ notify_count = 1

\* C5 as stated, in the form a finite run refutes: under a well-formed
\* configuration nothing that a sample contains stops the loop; the loop is
\* left only by a cancellation or by a failure of the display.
C5_SamplingNeverHalts ==
    (WellFormed(config) /\ pc \in {"finally", "exited"}) =>
        exc \in {"KeyboardInterrupt", "RenderError", "WebDriverException"}

\* C6: the call of play_alarm_sound ends in the display refresh with the name
\* in active_alarms, whether or not playsound raised (only an interrupt leaves
\* it otherwise); the refresh then goes on to the next item or to the end of
\* the sweep; and no later sample plays the sound for a name whose failed
\* alarm is still on.
C6_PlaybackFailureIsSwallowed ==
    [][ /\ pc = "notify" =>
             \/ /\ pc' = "publish"
                /\ exc' = "none"
                /\ CurName \in active_alarms'
             \/ exc' = "KeyboardInterrupt"
        /\ (pc = "publish" /\ exc' = "none") =>
             /\ published' = published + 1
             /\ pc' = IF idx < Len(items_data) THEN "fetch" ELSE "sleep"
             /\ idx' = IF idx < Len(items_data) THEN idx + 1 ELSE idx
        /\ (SampleStep /\ CurName \in failed_sounds) => notify_count' = notify_count
        /\ failed_sounds' \subseteq active_alarms'
      ]_vars

\* C6 witness: the sound failed when the alarm came on, and a later sample at
\* or below the alarm price has been processed without a second call.
C6_Witness ==
    /\ pc = "publish"
    /\ CurName \in failed_sounds
    /\ AtOrBelow(prices)
    /\ is_in_alarm
    /\ items_data[idx].last_updated = Fin(now)
    /\ notify_count = 1
    /\ Len(items_data) = 2

\* C7 as stated: on a configuration that is not well formed the process never
\* gets a driver, never fetches, plays or shows anything, and ends with a
\* non-zero status.
C7_MalformedConfigIsFatalAtStartup ==
    ~WellFormed(config) =>
        /\ driver = "none"
        /\ fetches = 0
        /\ notify_count = 0
        /\ published = 0
        /\ pc = "exited" => exit_status # 0

\* C8: the process never ends with the driver still open, and once the driver
\* has quit the process has ended (so nothing fetches after the release).
C8_DriverReleasedOnExit ==
    /\ pc = "exited" => driver # "open"
    /\ driver = "quit" => pc = "exited"

\* C8 witness: an interrupt after at least one fetch, and the driver has quit.
C8_Witness ==
    /\ pc = "exited"
    /\ driver = "quit"
    /\ exc = "KeyboardInterrupt"
    /\ fetches > 0

-----------------------------------------------------------------------------
\* Properties of parse_listings.

\* The claim's reading of a row: the price a well-formed row offers (None for
\* a row with no attribute, a payload that does not decode, a payload that is
\* not an object, no sell_min_price key, or a value that is no decimal).
OfferedPrice(row) ==
    IF ~row.attr \/ ~row.decodes \/ row.data.tag # "obj" THEN None
    ELSE LET fs == row.data.fields
             hits == {i \in 1..Len(fs) : Strip(fs[i][1]) = KEY}
         IN  IF hits = {} THEN None
             ELSE LET v == fs[CHOOSE i \in hits : \A j \in hits : j <= i][2] IN
                  IF v.tag = "num" /\ v.n.k \in {"fin", "nan", "inf"} THEN v.n
                  ELSE IF v.tag = "str" /\ FloatOfStr(v.s).st = "offer"
                  THEN FloatOfStr(v.s).p
                  ELSE None

RECURSIVE ExpectedOffers(_)
ExpectedOffers(rows) ==
    IF rows = <<>> THEN <<>>
    ELSE LET p == OfferedPrice(Head(rows)) IN
         IF p = None THEN ExpectedOffers(Tail(rows))
         ELSE <<p>> \o ExpectedOffers(Tail(rows))

\* C9 as stated: on a page with a listing container parse_listings returns
\* one offer for each well-formed row and nothing for any other row, whatever
\* the rows around it.
C9_OneOfferPerWellFormedRow ==
    (pc = "parse_done" /\ html.kind = "page" /\ html.container) =>
        /\ exc = "none"
        /\ prices = ExpectedOffers(html.rows)

\* C10: for a failed fetch, an empty text or a document without the listing
\* container, parse_listings returns the empty list and raises nothing.
C10_NoContainerNoPrices ==
    (pc = "parse_done" /\ (html.kind \in {"none", "empty"} \/ ~html.container)) =>
        /\ exc = "none"
        /\ prices = <<>>

\* C10 witness: a document with selling rows but no listing container has
\* been parsed to the empty list.
C10_Witness ==
    /\ pc = "parse_done"
    /\ html.kind = "page"
    /\ ~html.container
    /\ Len(html.rows) = 2
    /\ html.rows[1] = RowPrice("1.00")
    /\ prices = <<>>
    /\ exc = "none"

-----------------------------------------------------------------------------
\* Properties of the display.

\* No two items of the list have the same display name.
DistinctNames ==
    \A i, j \in 1..Len(items_data) :
        i # j => items_data[i].display_name # items_data[j].display_name

\* C11 as stated: in every layout about to be shown (well-formed configuration,
\* distinct names), every item whose name is in active_alarms and whose price
\* is a number >= 0 has a line with that price in the alarms panel, and a row
\* shows "N/A" for the price and for the time exactly when the item has never
\* had a non-empty sample.
C11_ActiveAlarmsAreListed ==
    (WellFormed(config) /\ DistinctNames /\ pc = "publish") =>
        LET L == generate_layout(items_data, active_alarms) IN
        \A i \in 1..Len(items_data) :
            LET it == items_data[i] IN
            /\ (it.display_name \in active_alarms
                    /\ it.lowest_price.k = "fin" /\ it.lowest_price.v >= 0)
                 => [display_name |-> it.display_name, price |-> it.lowest_price]
                        \in L.alarm_lines
            /\ (L.rows[i].price_str = NA) <=> (it.last_updated = None)
            /\ (L.rows[i].time_str = NA) <=> (it.last_updated = None)

-----------------------------------------------------------------------------
\* Further properties of the item step.

\* A sampling step that parsed a non-empty sample for the current item.
NonEmptySample == SampleStep /\ parse_listings(html').err = "none" /\ prices' # <<>>

\* C12 as stated: a non-empty sample whose lowest price equals the one recorded
\* by the item's previous non-empty sample changes neither the alarm state of
\* the item nor its recorded price, and plays no sound.
C12_RepeatedSampleIsIdempotent ==
    [][ (NonEmptySample /\ WellFormed(config)
            /\ PyMin(prices') = CurItem.lowest_price) =>
            /\ (CurName \in active_alarms') <=> (CurName \in active_alarms)
            /\ items_data'[idx].lowest_price = CurItem.lowest_price
            /\ notify_count' = notify_count
      ]_vars

\* C13: the loop fetches the items in the order of the list, one fetch per
\* item and sweep, shows exactly one layout after each fetch and before the
\* next one, and sleeps only when the layout of the last item has been shown.
C13_OneFetchOnePublishPerItem ==
    LET n == Len(items_data) IN
    /\ pc = "fetch" => /\ published = fetches + 1
                       /\ idx = (fetches % n) + 1
    /\ pc \in {"notify", "publish"} => /\ published = fetches
                                       /\ idx = ((fetches - 1) % n) + 1
    /\ (pc = "sleep" /\ n > 0) => /\ published = fetches + 1
                                  /\ fetches % n = 0
                                  /\ idx = n
    /\ pc \in {"fetch", "notify", "publish", "sleep"} =>
            \A i \in 1..n : items_data[i].url = config.items[i].url

\* C13 witness: the pause after the second full sweep of two items, the last
\* fetch of which failed.
C13_Witness ==
    /\ pc = "sleep"
    /\ Len(items_data) = 2
    /\ fetches = 4
    /\ published = 5
    /\ html = NoHtml

\* m is a minimum of the sample ps: one of its prices, with none below it.
IsMinOf(m, ps) ==
    /\ \E i \in 1..Len(ps) : ps[i] = m
    /\ \A i \in 1..Len(ps) : ~PyLt(ps[i], m)

\* C14: after a non-empty sample the item's lowest_price is a minimum of that
\* sample alone, its last_updated is the time of the sample, and the alarm
\* decision of the step is the one for that price: the sound is only called
\* when it is at or below the alarm price, and when the step goes on to the
\* display the name is in active_alarms exactly when it is.
C14_RecordsMinimumOfSample ==
    [][ NonEmptySample =>
            LET it == items_data'[idx] IN
            /\ IsMinOf(it.lowest_price, prices')
            /\ it.last_updated = Fin(now')
            /\ pc' = "notify" => PyLe(it.lowest_price, it.alarm_price) = "True"
            /\ pc' = "publish" =>
                 ((it.display_name \in active_alarms')
                    <=> PyLe(it.lowest_price, it.alarm_price) = "True")
      ]_vars

\* C14 witness: the recorded price has risen: the alarm was on (a price at or
\* below the alarm price was recorded) and the sample just taken recorded a
\* price above it.
C14_Witness ==
    /\ pc = "publish"
    /\ is_in_alarm
    /\ Above(prices)
    /\ CurItem.lowest_price = Fin(3)
    /\ CurItem.last_updated = Fin(now)
    /\ now >= 2

-----------------------------------------------------------------------------
\* Further properties of parse_listings.

\* C15 as stated: every price parse_listings returns is a finite number >= 0.
C15_OffersAreFiniteNonNegative ==
    (pc = "parse_done" /\ exc = "none") =>
        \A i \in 1..Len(prices) : prices[i].k = "fin" /\ prices[i].v >= 0

-----------------------------------------------------------------------------
\* Properties of the item list.

\* C16 as stated: a step that handles the sample of one record (the fetch and
\* the decision, or the return of the sound) leaves every other record's
\* lowest_price and last_updated as they were, and leaves every other record's
\* alarm as it was.
C16_RecordsAreIndependent ==
    [][ (WellFormed(config) /\ pc \in {"fetch", "notify"}) =>
            \A j \in 1..Len(items_data) :
                j # idx =>
                    /\ items_data'[j] = items_data[j]
                    /\ (items_data[j].display_name \in active_alarms')
                         <=> (items_data[j].display_name \in active_alarms)
      ]_vars

\* C17: in every state each item has a lowest_price exactly when it has a
\* last_updated; both are None until the item's first non-empty sample, which
\* sets both, and no step sets either back to None.
C17_PriceAndTimeSetTogether ==
    /\ [](\A i \in 1..Len(items_data) :
            (items_data[i].lowest_price = None) <=> (items_data[i].last_updated = None))
    /\ [][ /\ \A i \in 1..Len(items_data) :
                items_data[i].lowest_price # None =>
                    /\ Len(items_data') = Len(items_data)
                    /\ items_data'[i].lowest_price # None
                    /\ items_data'[i].last_updated # None
           /\ pc = "build_items" =>
                \A i \in 1..Len(items_data') :
                    /\ items_data'[i].lowest_price = None
                    /\ items_data'[i].last_updated = None
           /\ NonEmptySample =>
                /\ items_data'[idx].lowest_price # None
                /\ items_data'[idx].last_updated # None
         ]_vars

\* C17 witness: an item priced by its first sample has since had two empty
\* samples and still has its price and its time.
C17_Witness ==
    /\ pc = "publish"
    /\ Len(items_data) = 1
    /\ prices = <<>>
    /\ now = 3
    /\ items_data[1].lowest_price # None
    /\ items_data[1].last_updated = Fin(1)

\* C18: active_alarms holds configured display names only and is empty until
\* the loop starts; once built, the item list has the length and the order
\* of the configuration and every item keeps the display_name, url and
\* alarm_price of its record.
C18_ConfigurationIsNeverWritten ==
    /\ active_alarms \subseteq
            {config.items[i].display_name : i \in 1..Len(config.items)}
    /\ pc \in {"load_config", "build_items", "setup_driver", "live_init"} =>
            active_alarms = {}
    /\ pc \notin {"load_config", "build_items", "parse_call", "parse_done"}
            /\ ~BuildRaises(config) /\ load_config(config) = "none" =>
            /\ Len(items_data) = Len(config.items)
            /\ \A i \in 1..Len(items_data) :
                /\ items_data[i].display_name = config.items[i].display_name
                /\ items_data[i].url = config.items[i].url
                /\ items_data[i].alarm_price = config.items[i].alarm_price

\* C18 witness: two items, both sampled and both with their alarm on.
C18_Witness ==
    /\ pc = "sleep"
    /\ Len(items_data) = 2
    /\ active_alarms = {"A", "B"}
    /\ items_data[1].last_updated # None
    /\ items_data[2].last_updated # None

-----------------------------------------------------------------------------
\* Properties of _strip_recursive.

\* Every string of the value (key, value of a key, element of a list, at any
\* depth) has no white space at either end.
RECURSIVE AllTrimmed(_)
AllTrimmed(x) ==
    IF x.tag = "str" THEN Strip(x.s) = x.s
    ELSE IF x.tag = "arr" THEN \A i \in 1..Len(x.items) : AllTrimmed(x.items[i])
    ELSE IF x.tag = "obj"
    THEN \A i \in 1..Len(x.fields) :
            Strip(x.fields[i][1]) = x.fields[i][1] /\ AllTrimmed(x.fields[i][2])
    ELSE TRUE

\* The value with its strings taken out: what _strip_recursive must keep.
RECURSIVE Skeleton(_)
Skeleton(x) ==
    IF x.tag = "str" THEN JStr(<<>>)
    ELSE IF x.tag = "arr" THEN JArr([i \in 1..Len(x.items) |-> Skeleton(x.items[i])])
    ELSE IF x.tag = "obj"
    THEN JObj([i \in 1..Len(x.fields) |-> <<<<>>, Skeleton(x.fields[i][2])>>])
    ELSE x

\* C19 as stated: for every payload that parse_listings decodes, the result of
\* _strip_recursive has every string trimmed (keys, values, elements of
\* lists), has the payload's non-string leaves unchanged, and is left as it
\* is by a second application.
C19_StripTrimsEveryString ==
    pc = "parse_done" =>
        \A i \in 1..Len(html.rows) :
            (html.rows[i].attr /\ html.rows[i].decodes) =>
                LET stripped_data == StripRecursive(html.rows[i].data) IN
                /\ AllTrimmed(stripped_data)
                /\ Skeleton(stripped_data) = Skeleton(html.rows[i].data)
                /\ StripRecursive(stripped_data) = stripped_data

====
